---- MODULE Spec2Model ----
(***************************************************************************)
(* A model of build-router.py: the skill router builder.                   *)
(*                                                                         *)
(* Text is modelled at the character level: a Python str is a sequence of  *)
(* one-character strings, so that the regular expression of                *)
(* parse_frontmatter, str.strip, str.partition, str.replace and the        *)
(* lexicographic order of sorted() are computed as the code computes them. *)
(* A pathlib.Path is the sequence of its components, each a str.           *)
(***************************************************************************)
EXTENDS Integers, Sequences, FiniteSets, TLC

VARIABLES
    arg,            \* the argument of the function under test
    ret,            \* <<>> before the call, <<result>> after it
    fs,             \* the filesystem under skills_dir: relative path -> entry
    pc,             \* main's position
    args,           \* main's parsed command line
    skills,         \* main's local `skills`
    warning_count,  \* main's local `warning_count`
    content,        \* main's local `content`
    exit_code,      \* <<>> while running, <<n>> once main has returned n
    stdout,         \* what the current run printed
    log,            \* what the current run logged at WARNING or ERROR level
    now,            \* the last second in which a backup was taken (0: none yet)
    runs,           \* number of runs of main started so far
    outputs         \* history: the contents written to the router file, in order

vars == <<arg, ret, fs, pc, args, skills, warning_count, content, exit_code,
          stdout, log, now, runs, outputs>>

-----------------------------------------------------------------------------
(* Characters and strings                                                  *)

\* The characters the model uses, in code point order.
Chars ==
    << "\t", "\n", "\f", "\r", " ", "#", "'", "-", ".", "/",
       "0", "1", "2", "3", "4", "5", "6", "7", "8", "9", ":",
       "A", "B", "C", "D", "E", "F", "G", "H", "I", "J", "K", "L", "M",
       "N", "O", "P", "Q", "R", "S", "T", "U", "V", "W", "X", "Y", "Z", "_",
       "a", "b", "c", "d", "e", "f", "g", "h", "i", "j", "k", "l", "m",
       "n", "o", "p", "q", "r", "s", "t", "u", "v", "w", "x", "y", "z", "~" >>

\* Rank of a character in code point order (Python compares str by code point).
Ord == [c \in {Chars[i] : i \in 1..Len(Chars)} |->
            CHOOSE i \in 1..Len(Chars) : Chars[i] = c]

Min(S) == CHOOSE x \in S : \A y \in S : x <= y

Max(S) == CHOOSE x \in S : \A y \in S : x >= y

\* s < t for Python str (lexicographic by code point; a proper prefix is smaller).
StrLess(s, t) ==
    LET diff == {i \in 1..Min({Len(s), Len(t)}) : s[i] # t[i]}
    IN  IF diff = {} THEN Len(s) < Len(t)
        ELSE Ord[s[Min(diff)]] < Ord[t[Min(diff)]]

\* Whether pat occurs in s at position i.
StartsAt(s, i, pat) ==
    /\ i + Len(pat) - 1 <= Len(s)
    /\ \A k \in 1..Len(pat) : s[i + k - 1] = pat[k]

\* str.startswith
StartsWith(s, pat) == StartsAt(s, 1, pat)

\* The whitespace of \s and of str.strip() that a TLA+ string can hold.
IsSpace(c) == c \in {" ", "\t", "\n", "\r", "\f"}

\* str.strip()
Strip(s) ==
    LET keep == {i \in 1..Len(s) : ~IsSpace(s[i])}
    IN  IF keep = {} THEN <<>> ELSE SubSeq(s, Min(keep), Max(keep))

\* The line boundaries of str.splitlines() that a TLA+ string can hold.
LineBreaks == {"\n", "\r", "\f"}

RECURSIVE SplitLinesFrom(_, _)
SplitLinesFrom(s, i) ==
    IF i > Len(s) THEN <<>>
    ELSE LET brk  == {j \in i..Len(s) : s[j] \in LineBreaks}
             j    == IF brk = {} THEN Len(s) + 1 ELSE Min(brk)
             crlf == j < Len(s) /\ s[j] = "\r" /\ s[j + 1] = "\n"
         IN  <<SubSeq(s, i, j - 1)>> \o SplitLinesFrom(s, IF crlf THEN j + 2 ELSE j + 1)

\* str.splitlines(): the lines without their line breaks, no final empty line.
SplitLines(s) == SplitLinesFrom(s, 1)

\* str.partition(":"): the text before the first colon and the text after it.
Partition(line) ==
    LET c == Min({i \in 1..Len(line) : line[i] = ":"})
    IN  [key |-> SubSeq(line, 1, c - 1), value |-> SubSeq(line, c + 1, Len(line))]

RECURSIVE JoinLines(_)
\* "\n".join(lines)
JoinLines(lines) ==
    IF lines = <<>> THEN <<>>
    ELSE IF Len(lines) = 1 THEN lines[1]
    ELSE lines[1] \o <<"\n">> \o JoinLines(Tail(lines))

RECURSIVE Replace(_, _, _)
\* str.replace(old, new): every occurrence, left to right, without overlap.
Replace(s, old, new) ==
    IF Len(s) < Len(old) \/ old = <<>> THEN s
    ELSE IF StartsAt(s, 1, old)
    THEN new \o Replace(SubSeq(s, Len(old) + 1, Len(s)), old, new)
    ELSE <<s[1]>> \o Replace(Tail(s), old, new)

\* A Python dict as a function; d[k] = v overwrites.
EmptyDict == [k \in {} |-> <<>>]

DictSet(d, k, v) == [x \in DOMAIN d \cup {k} |-> IF x = k THEN v ELSE d[x]]

\* dict.get(k): <<>> for None, <<v>> for a value.
DictGet(d, k) == IF k \in DOMAIN d THEN <<d[k]>> ELSE <<>>

-----------------------------------------------------------------------------
(* parse_frontmatter                                                       *)

Dashes == <<"-", "-", "-">>

Closer == <<"\n", "-", "-", "-">>

\* re.match(r"^---\s*\n(.*?)\n---", content, re.DOTALL).
\* After "---", \s* is greedy and may give back characters, the "\n" that ends
\* the opener sits at some p, and the lazy group stops at the first "\n---"
\* at or after p + 1.  The first success in backtracking order is the largest
\* p that has a closer, with the nearest closer.
FrontmatterMatch(text) ==
    LET opens  == {p \in 4..Len(text) :
                      /\ text[p] = "\n"
                      /\ \A k \in 4..(p - 1) : IsSpace(text[k])}
        closes(p) == {e \in (p + 1)..Len(text) : StartsAt(text, e, Closer)}
        cands  == {p \in opens : closes(p) # {}}
    IN  IF ~StartsWith(text, Dashes) \/ cands = {}
        THEN [matched |-> FALSE, group1 |-> <<>>]
        ELSE LET p == Max(cands)
             IN  [matched |-> TRUE,
                  group1 |-> SubSeq(text, p + 1, Min(closes(p)) - 1)]

RECURSIVE FrontmatterLines(_, _)
\* The loop of lines 59-62.
FrontmatterLines(lines, frontmatter) ==
    IF lines = <<>> THEN frontmatter
    ELSE LET line == Head(lines)
         IN  IF ":" \in {line[i] : i \in 1..Len(line)}
             THEN FrontmatterLines(Tail(lines),
                      DictSet(frontmatter, Strip(Partition(line).key),
                                           Strip(Partition(line).value)))
             ELSE FrontmatterLines(Tail(lines), frontmatter)

parse_frontmatter(text) ==
    LET match == FrontmatterMatch(text)
    IN  IF ~match.matched THEN EmptyDict
        ELSE FrontmatterLines(SplitLines(match.group1), EmptyDict)

-----------------------------------------------------------------------------
(* Paths and the filesystem                                                *)

\* p < q for pathlib paths: their component lists compared, component by component.
PathLess(p, q) ==
    LET diff == {i \in 1..Min({Len(p), Len(q)}) : p[i] # q[i]}
    IN  IF diff = {} THEN Len(p) < Len(q)
        ELSE StrLess(p[Min(diff)], q[Min(diff)])

\* sorted(paths): a stable sort (elements that compare equal keep their order).
SortedPaths(seq) ==
    LET n == Len(seq)
        pos(i) == 1 + Cardinality({j \in 1..n : PathLess(seq[j], seq[i])})
                    + Cardinality({j \in 1..(i - 1) :
                                      ~PathLess(seq[j], seq[i]) /\ ~PathLess(seq[i], seq[j])})
    IN  [k \in 1..n |-> seq[CHOOSE i \in 1..n : pos(i) = k]]

\* sorted(strs)
SortedStrs(seq) ==
    LET n == Len(seq)
        pos(i) == 1 + Cardinality({j \in 1..n : StrLess(seq[j], seq[i])})
                    + Cardinality({j \in 1..(i - 1) : seq[j] = seq[i]})
    IN  [k \in 1..n |-> seq[CHOOSE i \in 1..n : pos(i) = k]]

\* sorted(skills, key=lambda s: s.name)
SortedByName(seq) ==
    LET n == Len(seq)
        pos(i) == 1 + Cardinality({j \in 1..n : StrLess(seq[j].name, seq[i].name)})
                    + Cardinality({j \in 1..(i - 1) : seq[j].name = seq[i].name})
    IN  [k \in 1..n |-> seq[CHOOSE i \in 1..n : pos(i) = k]]

RECURSIVE PathStr(_)
\* str(path) of an absolute POSIX path.
PathStr(path) ==
    IF path = <<>> THEN <<>>
    ELSE <<"/">> \o Head(path) \o PathStr(Tail(path))

\* Path.home(): the home directory of the invoking user.
HomeDir == << <<"h">> >>

SKILLS_DIR == HomeDir \o << <<".", "a", "g", "e", "n", "t", "s">>,
                            <<"s", "k", "i", "l", "l", "s">> >>

ROUTER_NAME == <<"_", "r", "o", "u", "t", "e", "r">>

\* A slip: the reserved output directory is left out of the ignore set.
IGNORED_DIRS_m ==
    { <<".", "g", "i", "t">>,
      <<"_", "_", "p", "y", "c", "a", "c", "h", "e", "_", "_">>,
      <<"n", "o", "d", "e", "_", "m", "o", "d", "u", "l", "e", "s">>,
      <<".", "v", "e", "n", "v">>,
      <<"v", "e", "n", "v">>,
      <<".", "h", "a", "t", "c", "h">> }

IGNORED_DIRS ==
    { <<"_", "r", "o", "u", "t", "e", "r">>,
      <<".", "g", "i", "t">>,
      <<"_", "_", "p", "y", "c", "a", "c", "h", "e", "_", "_">>,
      <<"n", "o", "d", "e", "_", "m", "o", "d", "u", "l", "e", "s">>,
      <<".", "v", "e", "n", "v">>,
      <<"v", "e", "n", "v">>,
      <<".", "h", "a", "t", "c", "h">> }

HELPER_DIRS ==
    { <<"s", "c", "r", "i", "p", "t", "s">>,
      <<"r", "e", "f", "e", "r", "e", "n", "c", "e", "s">>,
      <<"a", "s", "s", "e", "t", "s">> }

\* The filesystem under skills_dir is a function from relative paths (<<>> is
\* skills_dir itself) to entries.  A directory's entry carries in `text` the
\* content of the SKILL.md file in it (<<>>: it has none, <<t>>: content t); a
\* plain file's entry carries its own content.
DirEntry(text) == [kind |-> "dir", text |-> text]

FileEntry(text) == [kind |-> "file", text |-> <<text>>]

NoFs == [p \in {} |-> DirEntry(<<>>)]

\* Path.is_dir()
IsDir(f, path) == path \in DOMAIN f /\ f[path].kind = "dir"

\* (path / "SKILL.md").is_file()
HasSkillFile(f, path) == IsDir(f, path) /\ f[path].text # <<>>

\* Path.name
PathName(path) == path[Len(path)]

ChildNames(f, dir) ==
    {PathName(p) : p \in {q \in DOMAIN f : Len(q) = Len(dir) + 1
                                            /\ SubSeq(q, 1, Len(dir)) = dir}}

Perms(S) ==
    {f \in [1..Cardinality(S) -> S] : \A i, j \in 1..Cardinality(S) : i # j => f[i] # f[j]}

RECURSIVE ListingsOf(_, _)
ListingsOf(f, dirs) ==
    IF dirs = {} THEN {[d \in {} |-> <<>>]}
    ELSE LET d == CHOOSE x \in dirs : TRUE
         IN  {DictSet(l, d, perm) : l \in ListingsOf(f, dirs \ {d}),
                                    perm \in Perms(ChildNames(f, d))}

\* What Path.iterdir() can yield: for skills_dir and each directory directly in
\* it, the names of its entries in an arbitrary order.
Listings(f) == ListingsOf(f, {p \in DOMAIN f : IsDir(f, p) /\ Len(p) <= 1})

\* list(dir.iterdir()) under the listing l.
IterDir(l, dir) == [i \in 1..Len(l[dir]) |-> dir \o <<l[dir][i]>>]

-----------------------------------------------------------------------------
(* should_ignore, find_helper_dirs, find_skill_in_dir, scan_skills         *)

\* A slip: the dot-prefix test is forgotten.
should_ignore_m(path) == PathName(path) \in IGNORED_DIRS

should_ignore(path) ==
    PathName(path) \in IGNORED_DIRS \/ StartsWith(PathName(path), <<".">>)

\* The list `found` is built in the iteration order of a set and then sorted.
find_helper_dirs(f, skill_path) ==
    LET found == {helper \in HELPER_DIRS : IsDir(f, skill_path \o <<helper>>)}
        some  == CHOOSE s \in Perms(found) : TRUE
    IN  SortedStrs(some)

NameKey == <<"n", "a", "m", "e">>

DescriptionKey == <<"d", "e", "s", "c", "r", "i", "p", "t", "i", "o", "n">>

\* The two warnings of find_skill_in_dir; the first carries the folder name.
MissingName(name) == <<"Missing 'name' in frontmatter, using folder name: ", name>>

MissingDescription == <<"Missing 'description' in frontmatter">>

\* `not x` for x a str or None, held as <<v>> or <<>>.
Falsy(x) == x = <<>> \/ x[1] = <<>>

\* A slip: `if name is None` in place of `if not name`, so that an empty
\* `name:` value is kept as the name.
find_skill_in_dir_m(f, skills_dir, dir_path) ==
    IF ~HasSkillFile(f, dir_path) THEN <<>>
    ELSE LET frontmatter == parse_frontmatter(f[dir_path].text[1])
             got_name    == DictGet(frontmatter, NameKey)
             name        == IF got_name = <<>> THEN PathName(dir_path) ELSE got_name[1]
             description == DictGet(frontmatter, DescriptionKey)
             warnings    == (IF got_name = <<>> THEN <<MissingName(name)>> ELSE <<>>)
                            \o (IF Falsy(description) THEN <<MissingDescription>> ELSE <<>>)
         IN  << [name        |-> name,
                 path        |-> skills_dir \o dir_path,
                 description |-> description,
                 helpers     |-> find_helper_dirs(f, dir_path),
                 warnings    |-> warnings] >>

\* <<>> for None, <<skill>> for a Skill.  dir_path is relative to skills_dir,
\* and the record holds the path as the code builds it, skills_dir / dir_path.
find_skill_in_dir(f, skills_dir, dir_path) ==
    IF ~HasSkillFile(f, dir_path) THEN <<>>
    ELSE LET frontmatter == parse_frontmatter(f[dir_path].text[1])
             got_name    == DictGet(frontmatter, NameKey)
             name        == IF Falsy(got_name) THEN PathName(dir_path) ELSE got_name[1]
             description == DictGet(frontmatter, DescriptionKey)
             warnings    == (IF Falsy(got_name) THEN <<MissingName(name)>> ELSE <<>>)
                            \o (IF Falsy(description) THEN <<MissingDescription>> ELSE <<>>)
         IN  << [name        |-> name,
                 path        |-> skills_dir \o dir_path,
                 description |-> description,
                 helpers     |-> find_helper_dirs(f, dir_path),
                 warnings    |-> warnings] >>

RECURSIVE ScanGroup(_, _, _, _)
\* The inner loop (lines 142-149) over the sorted entries `subitems` of a group.
ScanGroup(f, skills_dir, subitems, found) ==
    IF subitems = <<>> THEN found
    ELSE LET subitem == Head(subitems)
             skill   == find_skill_in_dir(f, skills_dir, subitem)
         IN  IF ~IsDir(f, subitem) \/ should_ignore(subitem)
             THEN ScanGroup(f, skills_dir, Tail(subitems), found)
             ELSE ScanGroup(f, skills_dir, Tail(subitems), found \o skill)

RECURSIVE ScanItems(_, _, _, _, _)
\* The outer loop (lines 129-149) over the sorted entries `items` of skills_dir.
ScanItems(f, skills_dir, listing, items, found) ==
    IF items = <<>> THEN found
    ELSE LET item  == Head(items)
             skill == find_skill_in_dir(f, skills_dir, item)
         IN  IF ~IsDir(f, item) \/ should_ignore(item)
             THEN ScanItems(f, skills_dir, listing, Tail(items), found)
             ELSE IF skill # <<>>
             THEN ScanItems(f, skills_dir, listing, Tail(items), found \o skill)
             ELSE ScanItems(f, skills_dir, listing, Tail(items),
                      ScanGroup(f, skills_dir,
                                SortedPaths(IterDir(listing, item)), found))

\* listing is what iterdir() yields in this run.
scan_skills(f, skills_dir, listing) ==
    IF ~IsDir(f, <<>>) THEN <<>>
    ELSE ScanItems(f, skills_dir, listing,
                   SortedPaths(IterDir(listing, <<>>)), <<>>)

-----------------------------------------------------------------------------
(* validate_skills, check_conflicts, generate_router_content, list_skills  *)

RECURSIVE ValidateLoop(_, _)
ValidateLoop(list, acc) ==
    IF list = <<>> THEN acc
    ELSE LET skill == Head(list)
         IN  ValidateLoop(Tail(list),
                 [warning_count |-> acc.warning_count + Len(skill.warnings),
                  logged |-> acc.logged \o [i \in 1..Len(skill.warnings) |->
                                               [level |-> "WARNING", kind |-> "validation",
                                                name |-> skill.name,
                                                warning |-> skill.warnings[i]]]])

\* A slip: the count goes up once per skill with warnings, not once per warning.
validate_skills_m(list) ==
    [warning_count |-> Cardinality({i \in 1..Len(list) : list[i].warnings # <<>>}),
     logged |-> ValidateLoop(list, [warning_count |-> 0, logged |-> <<>>]).logged]

\* The count returned and the warnings logged.
validate_skills(list) == ValidateLoop(list, [warning_count |-> 0, logged |-> <<>>])

RECURSIVE ConflictLoop(_, _, _, _)
ConflictLoop(list, seen, unique, logged) ==
    IF list = <<>> THEN [unique |-> unique, logged |-> logged]
    ELSE LET skill == Head(list)
         IN  IF skill.name \in DOMAIN seen
             THEN ConflictLoop(Tail(list), seen, unique,
                      Append(logged, [level |-> "WARNING", kind |-> "conflict",
                                      name |-> skill.name, path |-> skill.path,
                                      registered |-> seen[skill.name]]))
             ELSE ConflictLoop(Tail(list), DictSet(seen, skill.name, skill.path),
                      Append(unique, skill), logged)

RECURSIVE Reverse(_)
Reverse(list) == IF list = <<>> THEN <<>> ELSE Append(Reverse(Tail(list)), Head(list))

\* A slip: the last record of a name wins.
check_conflicts_m(list) ==
    LET r == ConflictLoop(Reverse(list), EmptyDict, <<>>, <<>>)
    IN  [unique |-> Reverse(r.unique), logged |-> r.logged]

\* The list returned and the warnings logged; the argument is only read.
check_conflicts(list) == ConflictLoop(list, EmptyDict, <<>>, <<>>)

RouterHeader == <<"#", " ", "S", "k", "i", "l", "l", " ", "R", "o", "u", "t", "e", "r">>

\* The line of one skill (lines 191-192).
RouterLine(skill) ==
    skill.name \o <<":", " ">>
        \o Replace(PathStr(skill.path), PathStr(HomeDir), <<"~">>) \o <<"/">>

\* A slip: the records are rendered in the order given, without sorting.
generate_router_content_m(list) ==
    JoinLines(<<RouterHeader, <<>>>>
              \o [i \in 1..Len(list) |-> RouterLine(list[i])]
              \o << <<>> >>)

generate_router_content(list) ==
    LET sorted == SortedByName(list)
    IN  JoinLines(<<RouterHeader, <<>>>>
                  \o [i \in 1..Len(sorted) |-> RouterLine(sorted[i])]
                  \o << <<>> >>)

\* What list_skills prints: a row per skill in name order and the total.  The
\* column layout is left out; a description longer than 60 is cut to 57 and "...".
list_skills(list) ==
    IF list = <<>> THEN << <<"No skills found.">> >>
    ELSE LET sorted == SortedByName(list)
             desc(s) == IF Falsy(s.description) THEN <<"(no description)">>
                        ELSE IF Len(s.description[1]) > 60
                        THEN <<SubSeq(s.description[1], 1, 57) \o <<".", ".", ".">>>>
                        ELSE s.description
         IN  [i \in 1..Len(sorted) |->
                 <<"row", sorted[i].name, desc(sorted[i]), sorted[i].helpers>>]
             \o << <<"Total", Len(list)>> >>

-----------------------------------------------------------------------------
(* backup_router and the router file                                       *)

RouterDir == <<ROUTER_NAME>>

\* router_file.is_file()
RouterExists(f) == HasSkillFile(f, RouterDir)

RouterText(f) == f[RouterDir].text[1]

Digits == <<"0", "1", "2", "3", "4", "5", "6", "7", "8", "9">>

RECURSIVE Decimal(_)
Decimal(n) == IF n < 10 THEN <<Digits[n + 1]>> ELSE Decimal(n \div 10) \o <<Digits[(n % 10) + 1]>>

\* datetime.strftime: the clock reading as digits (one reading, one string).
Timestamp(t) == Decimal(t)

\* router_file.with_suffix(f".{timestamp}.bak"), relative to skills_dir.
BackupPath(t) ==
    RouterDir \o << <<"S", "K", "I", "L", "L">> \o <<".">> \o Timestamp(t)
                    \o <<".", "b", "a", "k">> >>

\* A slip: the router file is moved to the backup path, not copied.
backup_router_m(f, t) ==
    IF ~RouterExists(f) THEN f
    ELSE [p \in DOMAIN f \cup {BackupPath(t)} |->
             IF p = BackupPath(t) THEN FileEntry(RouterText(f))
             ELSE IF p = RouterDir THEN DirEntry(<<>>) ELSE f[p]]

\* The filesystem after backup_router at clock reading t; shutil.copy2 overwrites.
backup_router(f, t) ==
    IF ~RouterExists(f) THEN f
    ELSE [p \in DOMAIN f \cup {BackupPath(t)} |->
             IF p = BackupPath(t) THEN FileEntry(RouterText(f)) ELSE f[p]]

\* router_dir.mkdir(parents=True, exist_ok=True); router_file.write_text(text).
\* Reached only with skills_dir a directory and router_dir a directory or absent.
write_router(f, text) ==
    [p \in DOMAIN f \cup {RouterDir} |-> IF p = RouterDir THEN DirEntry(<<text>>) ELSE f[p]]

-----------------------------------------------------------------------------
(* Bounds and inputs                                                       *)

\* Lines a descriptor is put together from.
TextLines ==
    { <<"-", "-", "-">>,
      <<"-", "-", "-", " ">>,
      <<"-", "-", "-", "x">>,
      <<"n", "a", "m", "e", ":", " ", "b">>,
      <<"n", "a", "m", "e", ":">>,
      <<"d", "e", "s", "c", "r", "i", "p", "t", "i", "o", "n", ":", "d", ":", "e", " ">>,
      <<"d", "e", "s", "c", "r", "i", "p", "t", "i", "o", "n", ":", " ">>,
      <<"x">>,
      <<>> }

MaxLines == 4

Texts == {JoinLines(ls) : ls \in UNION {[1..n -> TextLines] : n \in 0..MaxLines}}

\* A descriptor without frontmatter, and one that names the skill "c" and
\* describes it.
PlainText == <<"x">>

FullText ==
    <<"-", "-", "-", "\n", "n", "a", "m", "e", ":", " ", "c", "\n",
      "d", "e", "s", "c", "r", "i", "p", "t", "i", "o", "n", ":", " ", "d", "\n",
      "-", "-", "-", "\n">>

\* What a directory made by the user holds: no SKILL.md, or one of two.
SkillTexts == {<<>>, <<PlainText>>, <<FullText>>}

\* Directory names of the scanner's specification: two plain names, a
\* dot-prefixed one and the reserved one.
ScanNames == { <<"a">>, <<"b">>, <<".", "x">>, ROUTER_NAME }

MaxScanEntries == 3

\* Directory names of main's specification.
MainNames == { <<"a">>, <<"b">> }

MaxMainEntries == 2

MaxRuns == 2

\* The content of a router file left by an earlier version of the tree.
OldRouterText == <<"o", "l", "d">>

-----------------------------------------------------------------------------
(* Idle values of the variables a specification does not use               *)

NoArgs == [list_skills |-> FALSE, validate |-> FALSE, dry_run |-> FALSE, backup |-> FALSE]

MainIdle ==
    /\ pc = "idle"
    /\ args = NoArgs
    /\ skills = <<>>
    /\ warning_count = 0
    /\ content = <<>>
    /\ exit_code = <<>>
    /\ stdout = <<>>
    /\ log = <<>>
    /\ now = 0
    /\ runs = 0
    /\ outputs = <<>>

mainVars == <<pc, args, skills, warning_count, content, exit_code, stdout, log,
              now, runs, outputs>>

-----------------------------------------------------------------------------
(* The user's actions on the tree, before the first run                    *)

\* skills_dir is missing, is a plain file, or is an empty directory.
InitialTrees ==
    { NoFs, [p \in {<<>>} |-> FileEntry(<<>>)], [p \in {<<>>} |-> DirEntry(<<>>)] }

\* The entries the user made: all but skills_dir and what is under _router.
UserEntries(f) == {p \in DOMAIN f : p # <<>> /\ p[1] # ROUTER_NAME}

TopLevel(paths) == {p \in paths : Len(p) = 1}

AddEntry(parent, name, entry) ==
    /\ IsDir(fs, parent)
    /\ parent \o <<name>> \notin DOMAIN fs
    /\ fs' = [p \in DOMAIN fs \cup {parent \o <<name>>} |->
                 IF p = parent \o <<name>> THEN entry ELSE fs[p]]

-----------------------------------------------------------------------------
(* main                                                                    *)

ArgSets == [list_skills : BOOLEAN, validate : BOOLEAN, dry_run : BOOLEAN, backup : BOOLEAN]

Return(code) == pc' = "done" /\ exit_code' = <<code>>

\* A slip: a run that finds no skills returns success.
ExitFor_m(outcome) == IF outcome = "validation warnings" THEN 1 ELSE 0

\* main's return values: 1 for "no skills found" (line 305) and for a
\* validation with warnings (line 323), 0 otherwise (lines 317, 325, 333, 342).
ExitFor(outcome) == IF outcome \in {"no skills", "validation warnings"} THEN 1 ELSE 0

\* Lines 289-305: a run begins; the command line is parsed and the tree is
\* scanned.  The model runs main on the default skills directory.
Main_Scan ==
    /\ pc \in {"idle", "done"}
    /\ runs < MaxRuns
    /\ runs' = runs + 1
    /\ \E listing \in Listings(fs) : skills' = scan_skills(fs, SKILLS_DIR, listing)
    /\ \E a \in ArgSets : args' = a
    /\ IF skills' = <<>>
       THEN /\ log' = (IF IsDir(fs, <<>>) THEN <<>>
                       ELSE <<[level |-> "ERROR", kind |-> "no_skills_dir"]>>)
                      \o <<[level |-> "WARNING", kind |-> "no_skills"]>>
            /\ Return(ExitFor("no skills"))
       ELSE /\ log' = <<>>
            /\ pc' = "check_conflicts"
            /\ exit_code' = <<>>
    /\ warning_count' = 0
    /\ content' = <<>>
    /\ stdout' = <<>>
    /\ UNCHANGED <<arg, ret, fs, now, outputs>>

\* Lines 307-312.
Main_CheckConflicts ==
    /\ pc = "check_conflicts"
    /\ LET checked   == check_conflicts(skills)
           validated == validate_skills(checked.unique)
       IN  /\ skills' = checked.unique
           /\ warning_count' = validated.warning_count
           /\ log' = log \o checked.logged \o validated.logged
    /\ pc' = "list"
    /\ UNCHANGED <<arg, ret, fs, args, content, exit_code, stdout, now, runs, outputs>>

\* Lines 314-325.
Main_ListOrValidate ==
    /\ pc = "list"
    /\ IF args.list_skills
       THEN /\ stdout' = list_skills(skills)
            /\ Return(ExitFor("listed"))
       ELSE IF args.validate
       THEN IF warning_count # 0
            THEN /\ stdout' = << <<"Validation completed with warning(s)", warning_count>> >>
                 /\ Return(ExitFor("validation warnings"))
            ELSE /\ stdout' = << <<"All skills valid">> >>
                 /\ Return(ExitFor("valid"))
       ELSE /\ pc' = "generate"
            /\ UNCHANGED <<stdout, exit_code>>
    /\ UNCHANGED <<arg, ret, fs, args, skills, warning_count, content, log, now, runs, outputs>>

\* Lines 327-333.
Main_Generate ==
    /\ pc = "generate"
    /\ content' = generate_router_content(skills)
    /\ IF args.dry_run
       THEN /\ stdout' = << <<"dry run", content'>> >>
            /\ Return(ExitFor("dry run"))
       ELSE /\ pc' = "backup"
            /\ UNCHANGED <<stdout, exit_code>>
    /\ UNCHANGED <<arg, ret, fs, args, skills, warning_count, log, now, runs, outputs>>

\* Lines 335-336.  Seconds are counted as backups observe them: backup_router
\* reads the clock in the second of the previous backup or in a later one.
Main_Backup ==
    /\ pc = "backup"
    /\ IF args.backup
       THEN \E t \in {now, now + 1} \ {0} :
               /\ now' = t
               /\ fs' = backup_router(fs, t)
       ELSE UNCHANGED <<fs, now>>
    /\ pc' = "write"
    /\ UNCHANGED <<arg, ret, args, skills, warning_count, content, exit_code, stdout, log,
                   runs, outputs>>

\* Lines 338-342.
Main_Write ==
    /\ pc = "write"
    /\ fs' = write_router(fs, content)
    /\ outputs' = Append(outputs, content)
    /\ Return(ExitFor("written"))
    /\ UNCHANGED <<arg, ret, args, skills, warning_count, content, stdout, log, now, runs>>

\* The user makes a directory, with or without a SKILL.md, before the first run:
\* in skills_dir or in a directory directly in it, the two levels main scans.
MakeSkillDir ==
    /\ pc = "idle"
    /\ Cardinality(UserEntries(fs)) < MaxMainEntries
    /\ \E parent \in {<<>>} \cup TopLevel(UserEntries(fs)), name \in MainNames,
          text \in SkillTexts :
          AddEntry(parent, name, DirEntry(text))
    /\ UNCHANGED <<arg, ret, mainVars>>

\* A router file written for an earlier tree is in place before the first run.
PreviousRouter ==
    /\ pc = "idle"
    /\ AddEntry(<<>>, ROUTER_NAME, DirEntry(<<OldRouterText>>))
    /\ UNCHANGED <<arg, ret, mainVars>>

InitMain ==
    /\ arg = <<>>
    /\ ret = <<>>
    /\ fs \in InitialTrees
    /\ MainIdle

NextMain ==
    \/ MakeSkillDir
    \/ PreviousRouter
    \/ Main_Scan
    \/ Main_CheckConflicts
    \/ Main_ListOrValidate
    \/ Main_Generate
    \/ Main_Backup
    \/ Main_Write

SpecMain == InitMain /\ [][NextMain]_vars

-----------------------------------------------------------------------------
(* scan_skills alone                                                       *)

InitScan ==
    /\ arg = <<>>
    /\ ret = <<>>
    /\ fs \in InitialTrees
    /\ MainIdle

\* The user makes a directory or a plain file.
MakeEntry ==
    /\ ret = <<>>
    /\ Cardinality(DOMAIN fs \ {<<>>}) < MaxScanEntries
    /\ \E parent \in DOMAIN fs, name \in ScanNames,
          entry \in {DirEntry(t) : t \in {<<>>, <<PlainText>>}} \cup {FileEntry(<<>>)} :
          AddEntry(parent, name, entry)
    /\ UNCHANGED <<arg, ret, mainVars>>

CallScanSkills ==
    /\ ret = <<>>
    /\ \E listing \in Listings(fs) :
          /\ arg' = listing
          /\ ret' = <<scan_skills(fs, SKILLS_DIR, listing)>>
    /\ UNCHANGED <<fs, mainVars>>

NextScan == MakeEntry \/ CallScanSkills

SpecScan == InitScan /\ [][NextScan]_vars

-----------------------------------------------------------------------------
(* parse_frontmatter alone                                                 *)

InitParse ==
    /\ arg \in Texts
    /\ ret = <<>>
    /\ fs = NoFs
    /\ MainIdle

CallParseFrontmatter ==
    /\ ret = <<>>
    /\ ret' = <<parse_frontmatter(arg)>>
    /\ UNCHANGED <<arg, fs, mainVars>>

NextParse == CallParseFrontmatter

SpecParse == InitParse /\ [][NextParse]_vars

-----------------------------------------------------------------------------
(* find_skill_in_dir, check_conflicts and generate_router_content alone    *)

LocateNames == { <<"a">>, <<"b">> }

InitLocate ==
    /\ arg \in [name : LocateNames, text : {<<>>} \cup {<<t>> : t \in Texts}]
    /\ ret = <<>>
    /\ fs = NoFs
    /\ MainIdle

\* The directory arg.name under skills_dir, with SKILL.md content arg.text.
LocateTree(a) ==
    [p \in {<<>>, <<a.name>>} |-> IF p = <<>> THEN DirEntry(<<>>) ELSE DirEntry(a.text)]

CallFindSkillInDir ==
    /\ ret = <<>>
    /\ ret' = <<find_skill_in_dir(LocateTree(arg), SKILLS_DIR, <<arg.name>>)>>
    /\ UNCHANGED <<arg, fs, mainVars>>

NextLocate == CallFindSkillInDir

SpecLocate == InitLocate /\ [][NextLocate]_vars

MaxSkills == 3

\* Paths with the home directory at the start, further in, twice, or not at all.
RecordPaths ==
    { << <<"h">> >>, << <<"h">>, <<"m">> >>, << <<"m">>, <<"h">> >>,
      << <<"h">>, <<"h">> >>, << <<"m">> >>, << <<"m">>, <<"m">> >> }

Records ==
    [name : { <<"a">>, <<"b">> }, path : RecordPaths, description : {<<>>},
     helpers : {<<>>}, warnings : {<<>>}]

RecordLists == UNION {[1..n -> Records] : n \in 0..MaxSkills}

InitStage ==
    /\ arg \in RecordLists
    /\ ret = <<>>
    /\ fs = NoFs
    /\ MainIdle

CallCheckConflicts ==
    /\ ret = <<>>
    /\ ret' = <<check_conflicts(arg)>>
    /\ UNCHANGED <<arg, fs, mainVars>>

NextConflicts == CallCheckConflicts

SpecConflicts == InitStage /\ [][NextConflicts]_vars

CallGenerateRouterContent ==
    /\ ret = <<>>
    /\ ret' = <<generate_router_content(arg)>>
    /\ UNCHANGED <<arg, fs, mainVars>>

NextGenerate == CallGenerateRouterContent

SpecGenerate == InitStage /\ [][NextGenerate]_vars

-----------------------------------------------------------------------------
(* Properties                                                              *)

RECURSIVE SplitNewline(_)
\* text.split("\n")
SplitNewline(text) ==
    LET nl == {i \in 1..Len(text) : text[i] = "\n"}
    IN  IF nl = {} THEN <<text>>
        ELSE <<SubSeq(text, 1, Min(nl) - 1)>>
             \o SplitNewline(SubSeq(text, Min(nl) + 1, Len(text)))

\* The elements of list at the indices idx, in the order of the list.
Pick(list, idx) ==
    [k \in 1..Cardinality(idx) |->
        list[CHOOSE i \in idx : Cardinality({j \in idx : j < i}) = k - 1]]

FirstOccurrences(list) ==
    {i \in 1..Len(list) : \A j \in 1..(i - 1) : list[j].name # list[i].name}

RECURSIVE TotalWarnings(_)
TotalWarnings(list) ==
    IF list = <<>> THEN 0 ELSE Len(Head(list).warnings) + TotalWarnings(Tail(list))

\* C1: check_conflicts returns exactly the records that are the first of their
\* name, in discovery order, and logs one conflict warning per dropped record.
C1_FirstOccurrenceWins ==
    ret # <<>> =>
        /\ ret[1].unique = Pick(arg, FirstOccurrences(arg))
        /\ \A i, j \in 1..Len(ret[1].unique) :
              i # j => ret[1].unique[i].name # ret[1].unique[j].name
        /\ {arg[i].name : i \in 1..Len(arg)}
              = {ret[1].unique[i].name : i \in 1..Len(ret[1].unique)}
        /\ Len(ret[1].logged) = Len(arg) - Len(ret[1].unique)
        /\ \A i \in 1..Len(ret[1].logged) : ret[1].logged[i].kind = "conflict"

\* A list of three whose second record repeats the first name and is dropped.
C1_Witness ==
    /\ ret # <<>>
    /\ Len(arg) = 3
    /\ arg[1].name = arg[2].name
    /\ arg[1].path # arg[2].path
    /\ arg[3].name # arg[1].name
    /\ Len(ret[1].unique) = 2
    /\ Len(ret[1].logged) = 1

\* C2: the generated content is the header, a blank line, then one line per
\* surviving record in ascending order of name with no name twice, then the
\* trailing blank line.
C2_IndexListsSurvivorsSorted ==
    content # <<>> =>
        LET lines == SplitNewline(content)
            n     == Len(skills)
        IN  /\ Len(lines) = n + 3
            /\ lines[1] = RouterHeader
            /\ lines[2] = <<>>
            /\ lines[n + 3] = <<>>
            /\ \A j, k \in 1..n : j # k => skills[j].name # skills[k].name
            /\ \A k \in 1..n :
                  lines[3 + Cardinality({j \in 1..n :
                                            StrLess(skills[j].name, skills[k].name)})]
                      = RouterLine(skills[k])

\* Two survivors discovered in the opposite of their name order.
C2_Witness ==
    /\ content # <<>>
    /\ Len(skills) = 2
    /\ StrLess(skills[2].name, skills[1].name)
    /\ Len(SplitNewline(content)) = 5

\* A name the scanner must skip: dot-prefixed or in the fixed ignore set, which
\* holds the reserved output directory.
IgnoredName(name) ==
    \/ name # <<>> /\ name[1] = "."
    \/ name \in IGNORED_DIRS \cup {ROUTER_NAME}

\* The directories that are skills by the two-level rule, relative to skills_dir.
ExpectedSkillDirs(f) ==
    {p \in DOMAIN f :
        /\ f[p].kind = "dir" /\ f[p].text # <<>>
        /\ \/ Len(p) = 1 /\ ~IgnoredName(p[1])
           \/ /\ Len(p) = 2 /\ ~IgnoredName(p[1]) /\ ~IgnoredName(p[2])
              /\ f[<<p[1]>>].kind = "dir" /\ f[<<p[1]>>].text = <<>>}

RelPath(path) == SubSeq(path, Len(SKILLS_DIR) + 1, Len(path))

\* Alphabetical order of the top-level directory, then of the nested one.
ScanOrder(p, q) ==
    \/ StrLess(p[1], q[1])
    \/ p[1] = q[1] /\ Len(p) = 1 /\ Len(q) = 2
    \/ p[1] = q[1] /\ Len(p) = 2 /\ Len(q) = 2 /\ StrLess(p[2], q[2])

\* C3: under an existing root scan_skills returns one record per directory
\* that is a skill by the two-level rule and nothing else, in alphabetical
\* order of top-level directory and then of nested directory.
C3_ScanTwoLevels ==
    (ret # <<>> /\ IsDir(fs, <<>>)) =>
        LET found == ret[1]
        IN  /\ Len(found) = Cardinality(ExpectedSkillDirs(fs))
            /\ \A i \in 1..Len(found) :
                  /\ SubSeq(found[i].path, 1, Len(SKILLS_DIR)) = SKILLS_DIR
                  /\ RelPath(found[i].path) \in ExpectedSkillDirs(fs)
            /\ \A i, j \in 1..Len(found) :
                  i < j => ScanOrder(RelPath(found[i].path), RelPath(found[j].path))

\* A nested skill is found while an ignored directory holding a SKILL.md is not.
C3_Witness ==
    /\ ret # <<>>
    /\ IsDir(fs, <<>>)
    /\ \E i \in 1..Len(ret[1]) : Len(RelPath(ret[1][i].path)) = 2
    /\ \E p \in DOMAIN fs : Len(p) = 1 /\ IgnoredName(p[1]) /\ HasSkillFile(fs, p)

\* The router file as main sees it: <<>> when absent, <<text>> otherwise.
RouterFile(f) == IF RouterExists(f) THEN f[RouterDir].text ELSE <<>>

\* The backup copies, by path.
BackupFiles(f) ==
    [p \in {q \in DOMAIN f : Len(q) = 2 /\ q[1] = ROUTER_NAME /\ f[q].kind = "file"} |->
        f[p].text[1]]

HasBackupOf(f, text) == \E p \in DOMAIN BackupFiles(f) : BackupFiles(f)[p] = text

C4_Step ==
    /\ (pc # "idle" /\ RouterFile(fs') # RouterFile(fs)) =>
          /\ pc = "write" /\ pc' = "done"
          /\ skills # <<>> /\ content # <<>>
          /\ RouterFile(fs') = <<content>>
    /\ (pc # "idle" /\ (RouterFile(fs') # RouterFile(fs)
                        \/ BackupFiles(fs') # BackupFiles(fs))) =>
          /\ skills # <<>>
          /\ ~args.list_skills /\ ~args.validate /\ ~args.dry_run
    /\ BackupFiles(fs') # BackupFiles(fs) =>
          /\ pc = "backup" /\ args.backup
          /\ RouterExists(fs)
          /\ RouterFile(fs') = RouterFile(fs)
          /\ HasBackupOf(fs', RouterText(fs))
    /\ (pc = "write" /\ pc' = "done" /\ args.backup /\ RouterExists(fs)) =>
          HasBackupOf(fs, RouterText(fs))

\* C4: a run writes the router file at most once, as its last step and after
\* the records and the content are final; a run that finds no records or asks
\* for --list, --validate or --dry-run changes neither the file nor the
\* backups; with --backup and a previous file, a copy of the previous content
\* exists before the file is overwritten.
C4_WriteLastBackupFirst == [][C4_Step]_vars /\ [](Len(outputs) <= runs)

\* A finished building run with --backup: the previous content is in a backup
\* and the router file holds the new content.
C4_Witness ==
    /\ pc = "done"
    /\ args.backup
    /\ exit_code = <<0>>
    /\ RouterFile(fs) = <<content>>
    /\ HasBackupOf(fs, OldRouterText)
    /\ content # OldRouterText

\* C5 as stated: with records found, the exit is non-zero exactly when
\* --validate was given and a surviving record carries a warning.
C5_AsStated ==
    (pc = "done" /\ skills # <<>>) =>
        (exit_code # <<0>> <=> (args.validate /\ TotalWarnings(skills) > 0))

\* C5: with records found, the exit is non-zero exactly when --validate was
\* given without --list and a surviving record carries a warning, and then
\* the printed count is the total number of those warnings.
C5_ValidateExit ==
    (pc = "done" /\ skills # <<>>) =>
        /\ exit_code # <<0>>
              <=> (args.validate /\ ~args.list_skills /\ TotalWarnings(skills) > 0)
        /\ exit_code # <<0>> =>
              stdout = << <<"Validation completed with warning(s)", TotalWarnings(skills)>> >>

\* A validation-only run over a record with both warnings.
C5_Witness ==
    /\ pc = "done"
    /\ skills # <<>>
    /\ args.validate
    /\ exit_code = <<1>>
    /\ TotalWarnings(skills) = 2
    /\ stdout = << <<"Validation completed with warning(s)", 2>> >>

\* C6 as stated: a finished run fails exactly when the scan found no records.
C6_AsStated ==
    pc = "done" => (exit_code # <<0>> <=> skills = <<>>)

\* C6: a run whose scan finds no records (a missing or non-directory root
\* included) fails; a run that finds records fails only as a validation-only
\* run, without --list, over records with warnings, so never for a name
\* conflict or for --list, --dry-run or --backup.
C6_FailureExits ==
    pc = "done" =>
        /\ skills = <<>> => exit_code # <<0>>
        /\ ~IsDir(fs, <<>>) => (skills = <<>> /\ exit_code # <<0>>)
        /\ (skills # <<>> /\ exit_code # <<0>>) =>
              (args.validate /\ ~args.list_skills /\ warning_count > 0)
        /\ (skills # <<>> /\ ~args.validate) => exit_code = <<0>>

\* A run over an existing root without any skill fails.
C6_Witness ==
    /\ pc = "done"
    /\ IsDir(fs, <<>>)
    /\ UserEntries(fs) # {}
    /\ skills = <<>>
    /\ exit_code = <<1>>

\* C7: find_skill_in_dir returns no record without a descriptor and otherwise a
\* record with a non-empty name, the metadata name or else the folder name with
\* the missing-name warning, and with exactly the warnings of the missing fields.
C7_LocatorNameAndWarnings ==
    ret # <<>> =>
        IF arg.text = <<>> THEN ret[1] = <<>>
        ELSE LET metadata == parse_frontmatter(arg.text[1])
                 has(key) == key \in DOMAIN metadata /\ metadata[key] # <<>>
                 skill    == ret[1][1]
             IN  /\ ret[1] # <<>>
                 /\ skill.name # <<>>
                 /\ skill.name = IF has(NameKey) THEN metadata[NameKey] ELSE arg.name
                 /\ skill.warnings
                       = (IF has(NameKey) THEN <<>> ELSE <<MissingName(arg.name)>>)
                         \o (IF has(DescriptionKey) THEN <<>> ELSE <<MissingDescription>>)
                 /\ Len(skill.warnings) \in 0..2

\* A descriptor whose frontmatter has a name field with an empty value.
C7_Witness ==
    /\ ret # <<>>
    /\ arg.text # <<>>
    /\ NameKey \in DOMAIN parse_frontmatter(arg.text[1])
    /\ parse_frontmatter(arg.text[1])[NameKey] = <<>>
    /\ ret[1] # <<>>
    /\ ret[1][1].name = arg.name
    /\ Len(ret[1][1].warnings) = 1

\* C8: every build of an unchanged tree writes the same content, whatever the
\* listing order and with the router file and its backups in place.
C8_RebuildIdentical ==
    \A i, j \in 1..Len(outputs) : outputs[i] = outputs[j]

\* Two builds, the second with the first's output and a backup on disk.
C8_Witness ==
    /\ Len(outputs) = 2
    /\ pc = "done"
    /\ RouterFile(fs) = <<outputs[2]>>
    /\ DOMAIN BackupFiles(fs) # {}

\* The display path of the claim: the home prefix, and only it, becomes "~".
DisplayPath(path) ==
    LET str  == PathStr(path)
        home == PathStr(HomeDir)
    IN  IF StartsWith(str, home)
        THEN <<"~">> \o SubSeq(str, Len(home) + 1, Len(str))
        ELSE str

\* C9: every record is rendered as "name: displayPath/", the home directory
\* replaced by "~" at the start of the path only.
C9_HomePrefixOnly ==
    ret # <<>> =>
        LET lines == SplitNewline(ret[1])
        IN  \A i \in 1..Len(arg) :
               \E k \in 3..Len(lines) :
                  lines[k] = arg[i].name \o <<":", " ">> \o DisplayPath(arg[i].path) \o <<"/">>

\* A line that holds the delimiter and nothing else (blanks after it allowed).
DelimiterLine(line) == StartsWith(line, Dashes) /\ Strip(line) = Dashes

\* C10: the mapping is read from the lines between a first line that is the
\* delimiter and the next line that is the delimiter, and is empty for a text
\* that does not begin with such a block.
C10_FencedBlockOnly ==
    ret # <<>> =>
        LET lines   == SplitNewline(arg)
            closers == {j \in 2..Len(lines) : DelimiterLine(lines[j])}
        IN  ret[1] = IF DelimiterLine(lines[1]) /\ closers # {}
                     THEN FrontmatterLines(SubSeq(lines, 2, Min(closers) - 1), EmptyDict)
                     ELSE EmptyDict

====
